---- MODULE Spec2Model ----
(***************************************************************************)
(* Turn / scoring engine of the browser Yahtzee game                       *)
(* (src/html-experiment/index.js).                                         *)
(*                                                                         *)
(* The state is the script's global game state.  Every input handler      *)
(* (mousedown, keydown, setNumberOfPlayers, selectScoreCategory,           *)
(* restartGame) is one action, guarded exactly as the handler is guarded   *)
(* in the script; a resumption of animateCupShake after one                *)
(* requestAnimationFrame is one action (FrameTick).                        *)
(* The overlay element is part of the state as far as it is shown; the    *)
(* game loop's tick is an action because in gameOver it opens the final    *)
(* scores overlay.                                                         *)
(*                                                                         *)
(* Spec and FairSpec run whole games with two roll outcomes and one        *)
(* selectable category; AnyCountSpec adds player counts no button sends;   *)
(* ScoreSpec ends a first turn on every dice tuple; FinalSpec ends a game  *)
(* on a range of scoreboards; TurnSpec commits any category on every dice  *)
(* tuple in a two-player game; ButtonSpec plays games with the overlay's   *)
(* buttons and key e only.                                                 *)
(***************************************************************************)
EXTENDS Integers, Sequences, FiniteSets, TLC

VARIABLES
    numPlayers,     \* let numPlayers
    scoreboards,    \* let scoreboards: player index -> (category -> NULL or <<score>>)
    currentRound,   \* let currentRound
    currentPlayer,  \* let currentPlayer
    diceValues,     \* let diceValues: die index -> face (0 = placeholder)
    diceKept,       \* let diceKept:   die index -> BOOLEAN
    rollsLeft,      \* let rollsLeft
    turnEnded,      \* let turnEnded
    gameMode,       \* let gameMode
    isAnimating,    \* let isAnimating
    anims,          \* live invocations of animateCupShake: frames each has resumed
    overlay,        \* what the #overlay element shows; kind "none" when it is not active
    commits         \* history: completed selectScoreCategory calls since setNumberOfPlayers

vars == <<numPlayers, scoreboards, currentRound, currentPlayer, diceValues,
          diceKept, rollsLeft, turnEnded, gameMode, isAnimating, anims, overlay,
          commits>>

----------------------------------------------------------------------------
(* Program constants *)

NUM_DICE == 5
MAX_TURNS == 13
MAX_ROLLS_PER_TURN == 2
stepsIn == 15
shakeFrames == 36
stepsOut == 15
MaxPlayerButton == 9

(* Bounds of the model *)

\* player counts offered to setNumberOfPlayers are 1..MaxPlayers
MaxPlayers == 2
\* selectScoreCategory is not offered once currentRound exceeds MaxRound
MaxRound == 14

----------------------------------------------------------------------------
(* Data *)

DiceIdx == 0 .. (NUM_DICE - 1)

catMap == << "ones", "twos", "threes", "fours", "fives", "sixes",
             "three_of_a_kind", "four_of_a_kind", "full_house",
             "small_straight", "large_straight", "yahtzee", "chance" >>

Categories == { catMap[k] : k \in 1 .. Len(catMap) }

upperKeys == << "ones", "twos", "threes", "fours", "fives", "sixes" >>

lowerKeys == << "three_of_a_kind", "four_of_a_kind", "full_house",
                "small_straight", "large_straight", "yahtzee", "chance" >>

\* a scoreboard entry is null or a number: NULL, or the one-element tuple <<n>>
NULL == << >>

Some(n) == << n >>

EmptyBoard == [c \in Categories |-> NULL]

Tuple5(a, b, c, d, e) == [i \in DiceIdx |-> CASE i = 0 -> a [] i = 1 -> b [] i = 2 -> c
                                              [] i = 3 -> d [] OTHER -> e]

\* the results of five Math.floor(Math.random() * 6) + 1 draws that one
\* rollDice call is given in the model; they differ in the die a mousedown can hit
RollOutcomes == { Tuple5(1, 2, 3, 4, 5), Tuple5(2, 2, 3, 4, 5) }

\* the faces Math.floor(Math.random() * 6) + 1 can give
Faces == 1 .. 6

\* every result of five draws
AllDice == [DiceIdx -> Faces]

\* the dice a mousedown can hit in the model
ClickDice == { 0 }

\* the categories a category-selected request can name in the model
SelectCats == { "ones" }

PlayerCounts == 1 .. MaxPlayers

\* the player count of the single-player games of FairSpec
SoloCounts == { 1 }

\* arguments of setNumberOfPlayers that no button of the prompt sends
OutOfRangeCounts == { 0, MaxPlayerButton + 1 }

AnyCounts == SoloCounts \union OutOfRangeCounts

----------------------------------------------------------------------------
(* Scoring calculator *)

RECURSIVE SumSeq(_)
SumSeq(s) == IF s = << >> THEN 0 ELSE Head(s) + SumSeq(Tail(s))

DiceSeq(vals) == [k \in 1 .. NUM_DICE |-> vals[k - 1]]

sumAll(vals) == SumSeq(DiceSeq(vals))

\* mutant of sumIfMatch: the matching dice are counted, not added up
sumIfMatchCount(vals, num) == Len(SelectSeq(DiceSeq(vals), LAMBDA v : v = num))

sumIfMatch(vals, num) == SumSeq(SelectSeq(DiceSeq(vals), LAMBDA v : v = num))

\* counts[v] = number of dice showing v, defined for the faces that occur
Counts(vals) ==
    [v \in { vals[i] : i \in DiceIdx } |-> Cardinality({ i \in DiceIdx : vals[i] = v })]

\* mutant of SortedCounts: Object.values(counts) without the sort, in the order of
\* the faces
RECURSIVE CountsByFace(_, _)
CountsByFace(counts, keys) ==
    IF keys = {} THEN << >>
    ELSE LET k == CHOOSE x \in keys : \A y \in keys : x <= y
         IN  << counts[k] >> \o CountsByFace(counts, keys \ {k})

\* Object.values(counts).sort(): the counts in ascending order (they are single
\* digits, so the sort's string comparison orders them as numbers)
RECURSIVE SortedCounts(_, _)
SortedCounts(counts, keys) ==
    IF keys = {} THEN << >>
    ELSE LET k == CHOOSE x \in keys : \A y \in keys : counts[x] <= counts[y]
         IN  << counts[k] >> \o SortedCounts(counts, keys \ {k})

\* mutant of SeqIn: some element, not every element
SeqSomeIn(seq, set) == \E k \in 1 .. Len(seq) : seq[k] \in set

\* seq.every(x => uniqueVals.includes(x))
SeqIn(seq, set) == \A k \in 1 .. Len(seq) : seq[k] \in set

calculatePossibleScores(vals) ==
    LET counts     == Counts(vals)
        has3       == \E v \in DOMAIN counts : counts[v] >= 3
        has4       == \E v \in DOMAIN counts : counts[v] >= 4
        countVals  == SortedCounts(counts, DOMAIN counts)
        isFullHouse == /\ Cardinality(DOMAIN counts) = 2
                       /\ countVals[1] = 2
                       /\ countVals[2] = 3
        uniqueVals == { vals[i] : i \in DiceIdx }
        smallStraights == { <<1, 2, 3, 4>>, <<2, 3, 4, 5>>, <<3, 4, 5, 6>> }
        hasSmall   == \E seq \in smallStraights : SeqIn(seq, uniqueVals)
        largeStraights == { <<1, 2, 3, 4, 5>>, <<2, 3, 4, 5, 6>> }
        hasLarge   == \E seq \in largeStraights :
                          /\ Len(seq) = Cardinality(uniqueVals)
                          /\ SeqIn(seq, uniqueVals)
        has5       == \E v \in DOMAIN counts : counts[v] = 5
    IN  [c \in Categories |->
            CASE c = "ones"            -> sumIfMatch(vals, 1)
              [] c = "twos"            -> sumIfMatch(vals, 2)
              [] c = "threes"          -> sumIfMatch(vals, 3)
              [] c = "fours"           -> sumIfMatch(vals, 4)
              [] c = "fives"           -> sumIfMatch(vals, 5)
              [] c = "sixes"           -> sumIfMatch(vals, 6)
              [] c = "three_of_a_kind" -> IF has3 THEN sumAll(vals) ELSE 0
              [] c = "four_of_a_kind"  -> IF has4 THEN sumAll(vals) ELSE 0
              [] c = "full_house"      -> IF isFullHouse THEN 25 ELSE 0
              [] c = "small_straight"  -> IF hasSmall THEN 30 ELSE 0
              [] c = "large_straight"  -> IF hasLarge THEN 40 ELSE 0
              [] c = "yahtzee"         -> IF has5 THEN 50 ELSE 0
              [] OTHER                 -> sumAll(vals)]

\* the number a scoreboard entry adds to a subtotal: if (sb[k] !== null) ... += sb[k]
EntryScore(sb, k) == IF sb[k] # NULL THEN sb[k][1] ELSE 0

\* mutant of UpperBonus: the bonus needs more than 63
UpperBonusAbove(upperScore) == IF upperScore > 63 THEN 35 ELSE 0

\* let bonus = (upperScore >= 63) ? 35 : 0
UpperBonus(upperScore) == IF upperScore >= 63 THEN 35 ELSE 0

\* calculateFinalScore(sb): [upperScore, bonus, lowerScore, total]
calculateFinalScore(sb) ==
    LET upperScore == SumSeq([k \in 1 .. Len(upperKeys) |-> EntryScore(sb, upperKeys[k])])
        lowerScore == SumSeq([k \in 1 .. Len(lowerKeys) |-> EntryScore(sb, lowerKeys[k])])
        bonus      == UpperBonus(upperScore)
        total      == upperScore + bonus + lowerScore
    IN  << upperScore, bonus, lowerScore, total >>

----------------------------------------------------------------------------
(* What the overlay shows *)

\* the overlay is not active
NoOverlay == [kind |-> "none"]

\* showPlayerPromptOverlay(): one button per player count 1 .. 9
PromptOverlay == [kind |-> "prompt", buttons |-> 1 .. MaxPlayerButton]

\* the table openScoreSelectionOverlay() builds: per category the score of the
\* dice with the two buttons, or "Used" with the score that is set
SelectOverlay ==
    LET possible == calculatePossibleScores(diceValues)
        sb       == scoreboards[currentPlayer]
    IN  [kind   |-> "select",
         player |-> currentPlayer,
         dice   |-> diceValues,
         rows   |-> [c \in Categories |->
                        IF sb[c] # NULL
                        THEN [used |-> TRUE, score |-> sb[c][1]]
                        ELSE [used |-> FALSE, score |-> possible[c]]]]

\* the table openFinalScoresOverlay() builds: per player the final score
FinalOverlay ==
    [kind |-> "final",
     rows |-> [p \in 0 .. (numPlayers - 1) |-> calculateFinalScore(scoreboards[p])]]

----------------------------------------------------------------------------
(* Initial state: the script's global initialisers and the startup call of *)
(* showPlayerPromptOverlay()                                               *)

Init ==
    /\ numPlayers = 1
    /\ scoreboards = [p \in {} |-> EmptyBoard]
    /\ currentRound = 1
    /\ currentPlayer = 0
    /\ diceValues = [i \in DiceIdx |-> 0]
    /\ diceKept = [i \in DiceIdx |-> FALSE]
    /\ rollsLeft = MAX_ROLLS_PER_TURN
    /\ turnEnded = FALSE
    /\ gameMode = "promptPlayers"
    /\ isAnimating = FALSE
    /\ anims = << >>
    /\ overlay = PromptOverlay
    /\ commits = 0

----------------------------------------------------------------------------
(* Functions of the script *)

\* mutant of initScoreboards: scoreboards that exist are kept, not replaced
initScoreboardsKeepOld(n) ==
    [p \in 0 .. (n - 1) |-> IF p \in DOMAIN scoreboards THEN scoreboards[p] ELSE EmptyBoard]

\* initScoreboards(n): n fresh scoreboards, every category null
initScoreboards(n) == [p \in 0 .. (n - 1) |-> EmptyBoard]

\* mutant of rollDice: the kept flags are not looked at
rollDiceAll(values, kept, r) == r

\* rollDice(): every die that is not kept gets a new face; r is the random draw
rollDice(values, kept, r) ==
    [i \in DiceIdx |-> IF ~kept[i] THEN r[i] ELSE values[i]]

\* the turn state beginPlayerTurn writes before its initial roll
TurnStartValues == [i \in DiceIdx |-> 0]

\* mutant of TurnStartKept: beginPlayerTurn leaves the kept flags as they are
TurnStartKeptNotReset == diceKept

TurnStartKept == [i \in DiceIdx |-> FALSE]

\* mutant of TurnStartRolls: one roll too many per turn
TurnStartRollsOneMore == MAX_ROLLS_PER_TURN + 1

TurnStartRolls == MAX_ROLLS_PER_TURN

\* beginPlayerTurn(): reset the turn state, roll once, enter "rolling"
beginPlayerTurn ==
    /\ \E r \in RollOutcomes :
           diceValues' = rollDice(TurnStartValues, TurnStartKept, r)
    /\ diceKept' = TurnStartKept
    /\ rollsLeft' = TurnStartRolls
    /\ turnEnded' = FALSE
    /\ gameMode' = "rolling"

\* mutant of applyScoreToCategory: forceZero is not looked at
applyScoreIgnoreZero(cat, vals, playerIdx, forceZero) ==
    [scoreboards EXCEPT ![playerIdx][cat] = Some(calculatePossibleScores(vals)[cat])]

\* applyScoreToCategory(cat, vals, playerIdx, forceZero): the new scoreboards
applyScoreToCategory(cat, vals, playerIdx, forceZero) ==
    IF forceZero
    THEN [scoreboards EXCEPT ![playerIdx][cat] = Some(0)]
    ELSE [scoreboards EXCEPT ![playerIdx][cat] = Some(calculatePossibleScores(vals)[cat])]

\* mutant of NextPlayer: the wrap compares with > instead of >=
NextPlayerWrapLate == IF currentPlayer + 1 > numPlayers THEN 0 ELSE currentPlayer + 1

\* nextPlayerOrRound(): player and round after the increment and the wrap
NextPlayer == IF currentPlayer + 1 >= numPlayers THEN 0 ELSE currentPlayer + 1

\* mutant of NextRound: the round advances with every commit
NextRoundEveryCommit == currentRound + 1

NextRound == IF currentPlayer + 1 >= numPlayers THEN currentRound + 1 ELSE currentRound

\* mutants of RoundLimitReached: the game ends one round early / one round late
RoundLimitEarly(round) == round >= MAX_TURNS

RoundLimitLate(round) == round > MAX_TURNS + 1

\* nextPlayerOrRound(): if (currentRound > MAX_TURNS)
RoundLimitReached(round) == round > MAX_TURNS

nextPlayerOrRound ==
    /\ currentPlayer' = NextPlayer
    /\ currentRound' = NextRound
    /\ IF RoundLimitReached(NextRound)
       THEN /\ gameMode' = "gameOver"
            /\ UNCHANGED <<diceValues, diceKept, rollsLeft, turnEnded>>
       ELSE beginPlayerTurn

\* mutant of LastFrame: the move-out phase is skipped
LastFrameNoMoveOut == stepsIn + shakeFrames

\* mutant of RollFrame: the dice are rolled when the shake begins
RollFrameShakeStart == stepsIn

\* frames an invocation of animateCupShake has resumed when it rolls / when it ends
RollFrame == stepsIn + shakeFrames

LastFrame == stepsIn + shakeFrames + stepsOut

----------------------------------------------------------------------------
(* Guards of the input handlers *)

\* mousedown: if (gameMode === "rolling" && !isAnimating)
MouseGuard == gameMode = "rolling" /\ ~isAnimating

\* mutant of KeyGuard: the handler does not look at isAnimating
KeyGuardNoAnimCheck == gameMode = "rolling"

\* keydown: if (gameMode === "rolling" && !isAnimating)
KeyGuard == gameMode = "rolling" /\ ~isAnimating

\* mutant of RerollGuard: the handler does not look at rollsLeft
RerollGuardAlways == TRUE

\* keydown, key r: if (rollsLeft > 0)
RerollGuard == rollsLeft > 0

\* animateCupShake: if (isAnimating) return
ShakeGuard == ~isAnimating

----------------------------------------------------------------------------
(* Actions *)

\* mousedown on die i
MouseDown(i) ==
    IF MouseGuard
    THEN /\ diceKept' = [diceKept EXCEPT ![i] = ~diceKept[i]]
         /\ UNCHANGED <<numPlayers, scoreboards, currentRound, currentPlayer, diceValues,
                        rollsLeft, turnEnded, gameMode, isAnimating, anims, overlay,
                        commits>>
    ELSE UNCHANGED vars

\* the synchronous head of animateCupShake, up to its first await
animateCupShake ==
    IF ShakeGuard
    THEN /\ isAnimating' = TRUE
         /\ rollsLeft' = rollsLeft - 1
         /\ anims' = Append(anims, 0)
         /\ UNCHANGED <<numPlayers, scoreboards, currentRound, currentPlayer, diceValues,
                        diceKept, turnEnded, gameMode, overlay, commits>>
    ELSE UNCHANGED vars

\* openScoreSelectionOverlay(): with no scoreboard for the current player it
\* throws before it touches the overlay
openScoreSelectionOverlay ==
    IF currentPlayer \in DOMAIN scoreboards
    THEN overlay' = SelectOverlay
    ELSE overlay' = overlay

\* keydown with key r / R
KeyR ==
    IF KeyGuard /\ RerollGuard
    THEN animateCupShake
    ELSE UNCHANGED vars

\* mutant of KeyE: ending the turn also clears the kept flags
KeyEClearsKept ==
    IF KeyGuard
    THEN /\ turnEnded' = TRUE
         /\ gameMode' = "scoreSelection"
         /\ openScoreSelectionOverlay
         /\ diceKept' = TurnStartKept
         /\ UNCHANGED <<numPlayers, scoreboards, currentRound, currentPlayer, diceValues,
                        rollsLeft, isAnimating, anims, commits>>
    ELSE UNCHANGED vars

\* keydown with key e / E
KeyE ==
    IF KeyGuard
    THEN /\ turnEnded' = TRUE
         /\ gameMode' = "scoreSelection"
         /\ openScoreSelectionOverlay
         /\ UNCHANGED <<numPlayers, scoreboards, currentRound, currentPlayer, diceValues,
                        diceKept, rollsLeft, isAnimating, anims, commits>>
    ELSE UNCHANGED vars

\* one resumption of the k-th live animateCupShake after requestAnimationFrame:
\* a move-in, shake or move-out frame; rollDice() follows the last shake frame and
\* isAnimating = false the last move-out frame
FrameTick(k) ==
    /\ k \in 1 .. Len(anims)
    /\ LET f == anims[k] + 1
       IN  /\ IF f = RollFrame
              THEN \E r \in RollOutcomes : diceValues' = rollDice(diceValues, diceKept, r)
              ELSE diceValues' = diceValues
           /\ IF f = LastFrame
              THEN /\ isAnimating' = FALSE
                   /\ anims' = SubSeq(anims, 1, k - 1) \o SubSeq(anims, k + 1, Len(anims))
              ELSE /\ isAnimating' = isAnimating
                   /\ anims' = [anims EXCEPT ![k] = f]
    /\ UNCHANGED <<numPlayers, scoreboards, currentRound, currentPlayer, diceKept,
                   rollsLeft, turnEnded, gameMode, overlay, commits>>

\* window.setNumberOfPlayers(n)
setNumberOfPlayers(n) ==
    /\ numPlayers' = n
    /\ overlay' = NoOverlay
    /\ scoreboards' = initScoreboards(n)
    /\ currentRound' = 1
    /\ currentPlayer' = 0
    /\ beginPlayerTurn
    /\ commits' = 0
    /\ UNCHANGED <<isAnimating, anims>>

\* window.selectScoreCategory(category, forceZero); with no scoreboard for the
\* current player applyScoreToCategory throws and the handler changes nothing
selectScoreCategory(category, forceZero) ==
    /\ currentRound <= MaxRound
    /\ IF currentPlayer \in DOMAIN scoreboards
       THEN /\ scoreboards' = applyScoreToCategory(category, diceValues, currentPlayer, forceZero)
            /\ overlay' = NoOverlay
            /\ nextPlayerOrRound
            /\ commits' = commits + 1
            /\ UNCHANGED <<numPlayers, isAnimating, anims>>
       ELSE UNCHANGED vars

\* mutant of restartGame: the scoreboards are discarded at once
restartGameDiscards ==
    /\ gameMode' = "promptPlayers"
    /\ overlay' = PromptOverlay
    /\ scoreboards' = initScoreboards(0)
    /\ UNCHANGED <<numPlayers, currentRound, currentPlayer, diceValues,
                   diceKept, rollsLeft, turnEnded, isAnimating, anims, commits>>

\* window.restartGame()
restartGame ==
    /\ gameMode' = "promptPlayers"
    /\ overlay' = PromptOverlay
    /\ UNCHANGED <<numPlayers, scoreboards, currentRound, currentPlayer, diceValues,
                   diceKept, rollsLeft, turnEnded, isAnimating, anims, commits>>

\* gameLoop(), called by setInterval: in gameOver drawGameOverScreen() opens the
\* final scores overlay unless the overlay is active; in the other phases it draws only
gameLoop ==
    IF /\ gameMode = "gameOver"
       /\ overlay = NoOverlay
       /\ \A p \in 0 .. (numPlayers - 1) : p \in DOMAIN scoreboards
    THEN /\ overlay' = FinalOverlay
         /\ UNCHANGED <<numPlayers, scoreboards, currentRound, currentPlayer, diceValues,
                        diceKept, rollsLeft, turnEnded, gameMode, isAnimating, anims,
                        commits>>
    ELSE UNCHANGED vars

\* every handler and the frame callback, with the player counts on offer
NextWith(counts) ==
    \/ \E i \in ClickDice : MouseDown(i)
    \/ KeyR
    \/ KeyE
    \/ \E k \in 1 .. Len(anims) : FrameTick(k)
    \/ \E n \in counts : setNumberOfPlayers(n)
    \/ \E c \in SelectCats, z \in BOOLEAN : selectScoreCategory(c, z)
    \/ restartGame
    \/ gameLoop

Next == NextWith(PlayerCounts)

Spec == Init /\ [][Next]_vars

NextSolo == NextWith(SoloCounts)

\* single-player games in which requestAnimationFrame calls back every live
\* invocation of animateCupShake
FairSpec ==
    /\ Init
    /\ [][NextSolo]_vars
    /\ WF_vars(\E k \in 1 .. Len(anims) : FrameTick(k))

\* games begun by setNumberOfPlayers with any argument, up to the first
\* category-selected request
AnyCountNext ==
    \/ \E n \in AnyCounts : setNumberOfPlayers(n)
    \/ \E i \in ClickDice : MouseDown(i)
    \/ KeyR
    \/ KeyE
    \/ \E k \in 1 .. Len(anims) : FrameTick(k)
    \/ restartGame

AnyCountSpec == Init /\ [][AnyCountNext]_vars

\* the states setNumberOfPlayers(1) can leave: the initial roll of the first
\* turn can be any result of five draws
ScoreInit ==
    /\ numPlayers = 1
    /\ scoreboards = initScoreboards(1)
    /\ currentRound = 1
    /\ currentPlayer = 0
    /\ diceValues \in { rollDice(TurnStartValues, TurnStartKept, r) : r \in AllDice }
    /\ diceKept = TurnStartKept
    /\ rollsLeft = TurnStartRolls
    /\ turnEnded = FALSE
    /\ gameMode = "rolling"
    /\ isAnimating = FALSE
    /\ anims = << >>
    /\ overlay = NoOverlay
    /\ commits = 0

\* the end of the first turn, with the dice it was given: key e opens the menu,
\* a Take Score button of the menu commits
ScoreNext ==
    \/ KeyE
    \/ \E c \in Categories :
           /\ gameMode = "scoreSelection"
           /\ commits = 0
           /\ selectScoreCategory(c, FALSE)

ScoreSpec == ScoreInit /\ [][ScoreNext]_vars

\* the second turn of the second player of a two-player game, with any initial
\* roll: the first player took three ones and zeroed chance, the second took a
\* yahtzee
TurnInit ==
    /\ numPlayers = 2
    /\ scoreboards = [p \in 0 .. 1 |->
                         IF p = 0
                         THEN [EmptyBoard EXCEPT !["ones"] = Some(3), !["chance"] = Some(0)]
                         ELSE [EmptyBoard EXCEPT !["yahtzee"] = Some(50)]]
    /\ currentRound = 2
    /\ currentPlayer = 1
    /\ diceValues \in { rollDice(TurnStartValues, TurnStartKept, r) : r \in AllDice }
    /\ diceKept = TurnStartKept
    /\ rollsLeft = TurnStartRolls
    /\ turnEnded = FALSE
    /\ gameMode = "rolling"
    /\ isAnimating = FALSE
    /\ anims = << >>
    /\ overlay = NoOverlay
    /\ commits = 3

\* that turn: key e, then one selectScoreCategory request for any category,
\* Take Score or Zero This
TurnNext ==
    \/ KeyE
    \/ \E c \in Categories, z \in BOOLEAN :
           /\ gameMode = "scoreSelection"
           /\ currentPlayer = 1
           /\ selectScoreCategory(c, z)

TurnSpec == TurnInit /\ [][TurnNext]_vars

\* the categories whose rows of the open selection menu have buttons
OfferedCats == { c \in Categories : ~overlay.rows[c].used }

\* place of a category in the menu
CatIndex(c) == CHOOSE k \in 1 .. Len(catMap) : catMap[k] = c

\* the first and the last row that have buttons
FirstRow == { c \in OfferedCats : \A d \in OfferedCats : CatIndex(c) <= CatIndex(d) }

LastRow == { c \in OfferedCats : \A d \in OfferedCats : CatIndex(c) >= CatIndex(d) }

\* the buttons clicked in the model, as arguments of selectScoreCategory: Take
\* Score in the first row that has buttons, Zero This in the last
Clicks == (FirstRow \X { FALSE }) \union (LastRow \X { TRUE })

\* the player count buttons clicked in ButtonSpec
ButtonCounts == { 1, 2 }

\* games played with the buttons the overlay shows and key e only: a player
\* count button of the prompt, a button of a row of the selection menu, Play
\* Again of the final scores
ButtonNext ==
    \/ \E n \in ButtonCounts :
           /\ overlay.kind = "prompt"
           /\ setNumberOfPlayers(n)
    \/ KeyE
    \/ /\ overlay.kind = "select"
       /\ \E b \in Clicks : selectScoreCategory(b[1], b[2])
    \/ gameLoop
    \/ /\ overlay.kind = "final"
       /\ restartGame

ButtonSpec == Init /\ [][ButtonNext]_vars

\* entries the earlier turns of a game can have left in a category: null, or a
\* score some dice tuple has in it (three dice of the face, four sixes, ...)
SampleEntries(c) ==
    CASE c = "ones"            -> << NULL, Some(3) >>
      [] c = "twos"            -> << NULL, Some(6) >>
      [] c = "threes"          -> << NULL, Some(9) >>
      [] c = "fours"           -> << NULL, Some(12) >>
      [] c = "fives"           -> << NULL, Some(15), Some(10) >>
      [] c = "sixes"           -> << NULL, Some(18), Some(24) >>
      [] c = "three_of_a_kind" -> << NULL, Some(17) >>
      [] c = "four_of_a_kind"  -> << NULL, Some(0) >>
      [] c = "full_house"      -> << NULL, Some(25) >>
      [] c = "small_straight"  -> << NULL, Some(30) >>
      [] c = "large_straight"  -> << NULL, Some(40) >>
      [] c = "yahtzee"         -> << NULL, Some(50) >>
      [] OTHER                 -> << NULL, Some(23) >>

\* the scoreboard whose entry in category c is the pick[c]-th of these
SampleBoard(pick) ==
    [c \in Categories |-> IF pick[c] <= Len(SampleEntries(c))
                          THEN SampleEntries(c)[pick[c]]
                          ELSE NULL]

\* the categories the last commit of the game names in FinalSpec
LastCats == { "ones", "chance" }

\* the last turn of a one-player game, ended by key e: round 13, the menu open,
\* the scoreboard as the twelve turns before have left it
FinalInit ==
    /\ numPlayers = 1
    /\ \E u \in [{ upperKeys[k] : k \in 1 .. Len(upperKeys) } -> 1 .. 3],
          l \in [{ lowerKeys[k] : k \in 1 .. Len(lowerKeys) } -> 1 .. 2] :
           /\ SampleBoard(u @@ l) # EmptyBoard
           /\ scoreboards = [p \in 0 .. 0 |-> SampleBoard(u @@ l)]
    /\ currentRound = MAX_TURNS
    /\ currentPlayer = 0
    /\ diceValues = Tuple5(1, 2, 3, 4, 5)
    /\ diceKept = TurnStartKept
    /\ rollsLeft = TurnStartRolls
    /\ turnEnded = TRUE
    /\ gameMode = "scoreSelection"
    /\ isAnimating = FALSE
    /\ anims = << >>
    /\ overlay = SelectOverlay
    /\ commits = MAX_TURNS - 1

\* the last commit of the game, then the game loop in gameOver
FinalNext ==
    \/ \E c \in LastCats, z \in BOOLEAN :
           /\ gameMode = "scoreSelection"
           /\ selectScoreCategory(c, z)
    \/ gameLoop

FinalSpec == FinalInit /\ [][FinalNext]_vars

----------------------------------------------------------------------------
(* Vocabulary of the properties *)

InPlay == gameMode \in {"rolling", "scoreSelection"}

\* a step of setNumberOfPlayers: a new game begins
NewGameStep == \E n \in PlayerCounts : setNumberOfPlayers(n)

\* a step in which selectScoreCategory ran to its end
CommitStep == commits' = commits + 1

\* a step in which an invocation of animateCupShake passed its guard
RerollStartStep == Len(anims') > Len(anims)

RerollAcceptable == gameMode = "rolling" /\ rollsLeft > 0 /\ ~isAnimating

----------------------------------------------------------------------------
(* C1: a category-selected request served in phase scoreSelection never     *)
(* changes a scoreboard entry that is already set: every set entry keeps   *)
(* its value in every such step (entries are write-once within a game).    *)
C1_WriteOnce ==
    [][ (gameMode = "scoreSelection" /\ ~NewGameStep) =>
            \A p \in DOMAIN scoreboards : \A c \in Categories :
                scoreboards[p][c] # NULL =>
                    /\ p \in DOMAIN scoreboards'
                    /\ scoreboards'[p][c] = scoreboards[p][c] ]_vars

(* C2: the phase is never gameOver with fewer than numPlayers * 13 commits, *)
(* the commit that makes the count numPlayers * 13 puts the phase in        *)
(* gameOver, and a game in play enters gameOver by that commit only.        *)
C2_GameOverAtLastCommit ==
    /\ [](gameMode = "gameOver" => commits >= numPlayers * MAX_TURNS)
    /\ [][ /\ (CommitStep /\ commits' = numPlayers * MAX_TURNS) => gameMode' = "gameOver"
           /\ (InPlay /\ gameMode' = "gameOver") =>
                  (CommitStep /\ commits' = numPlayers * MAX_TURNS) ]_vars

C2_Witness == gameMode = "gameOver" /\ numPlayers = 2 /\ commits = 2 * MAX_TURNS

(* C3: a reroll sequence starts, and rolls-left decreases, only in a step    *)
(* taken in phase rolling with rolls-left > 0 and no animation in progress,  *)
(* and that step decrements rolls-left by exactly 1; a reroll request in any *)
(* other state changes nothing.                                              *)
C3_RerollAcceptedOrNoOp ==
    [][ /\ (RerollStartStep \/ rollsLeft' < rollsLeft \/ (isAnimating' /\ ~isAnimating)) =>
               /\ RerollAcceptable
               /\ rollsLeft' = rollsLeft - 1
               /\ isAnimating'
        /\ (KeyR /\ ~RerollAcceptable) =>
               UNCHANGED <<rollsLeft, diceValues, diceKept, gameMode, isAnimating>> ]_vars

C3_Witness == gameMode = "rolling" /\ rollsLeft = 0 /\ isAnimating

(* C4: rolls-left is always an integer in 0 .. 2. *)
C4_RollsLeftInRange == rollsLeft \in 0 .. MAX_ROLLS_PER_TURN

C4_Witness == gameMode = "rolling" /\ rollsLeft = 0 /\ ~isAnimating /\ currentRound = MAX_TURNS

(* C5 as claimed: the round number is in 1 .. 13 in every reachable state, *)
(* gameOver and the promptPlayers state after a restart included.          *)
C5_RoundAtMost13 == currentRound \in 1 .. MAX_TURNS

(* C5 as amended: the round number is in 1 .. 13 whenever the phase is      *)
(* rolling or scoreSelection, it is at least 1 always, and in gameOver it   *)
(* is above 13.                                                             *)
C5_RoundInPlay ==
    /\ currentRound >= 1
    /\ InPlay => currentRound \in 1 .. MAX_TURNS
    /\ gameMode = "gameOver" => currentRound > MAX_TURNS

C5_Witness == gameMode = "gameOver" /\ currentRound = MAX_TURNS + 1 /\ numPlayers = 2

(* C6: whenever the phase is rolling or scoreSelection, also on every frame *)
(* of a reroll animation, there are exactly 5 dice values, each an integer  *)
(* in 1 .. 6; the placeholder 0 is not visible in those phases.             *)
C6_DiceInRange ==
    InPlay =>
        /\ DOMAIN diceValues = 0 .. 4
        /\ \A i \in DOMAIN diceValues : diceValues[i] \in 1 .. 6

C6_Witness ==
    /\ gameMode = "rolling"
    /\ isAnimating
    /\ anims # << >>
    /\ anims[1] = 20
    /\ diceKept[0]
    /\ currentRound = 2

(* C7: at most one reroll sequence is live and isAnimating says whether one *)
(* is; while it is set the phase is not scoreSelection, a reroll, end-turn  *)
(* or die-toggle request changes nothing, and a frame of the sequence       *)
(* leaves the phase, the current player, the round and the kept flags as    *)
(* they are.                                                                *)
C7_AnimationMutex ==
    /\ [](/\ Len(anims) <= 1
          /\ isAnimating <=> (Len(anims) = 1)
          /\ isAnimating => gameMode # "scoreSelection")
    /\ [][ /\ (isAnimating /\ (KeyR \/ KeyE \/ \E i \in ClickDice : MouseDown(i))) =>
                  UNCHANGED vars
           /\ (isAnimating /\ \E k \in 1 .. Len(anims) : FrameTick(k)) =>
                  UNCHANGED <<gameMode, currentPlayer, currentRound, diceKept, rollsLeft>>
           /\ RerollStartStep => ~isAnimating ]_vars

C7_Witness ==
    /\ gameMode = "rolling"
    /\ isAnimating
    /\ anims = << stepsIn + shakeFrames + stepsOut - 1 >>
    /\ diceKept[0]
    /\ rollsLeft = 0

(* C8: a started reroll sequence completes: once isAnimating is set it is   *)
(* eventually cleared; it is cleared only by the frame that is the          *)
(* 15 + 36 + 15 = 66th of the sequence, the frame count of a live sequence  *)
(* only ever grows by one, so no input cancels or shortens it; and when it  *)
(* is cleared in phase rolling the input handlers accept requests again.    *)
C8_SequenceCompletes ==
    /\ isAnimating ~> ~isAnimating
    /\ [][ /\ (isAnimating /\ ~isAnimating') =>
                  /\ anims = << 15 + 36 + 15 - 1 >>
                  /\ anims' = << >>
                  /\ gameMode' = "rolling" => (KeyGuard' /\ MouseGuard')
           /\ (anims # << >> /\ anims' # << >>) =>
                  /\ Len(anims') = Len(anims)
                  /\ anims'[1] \in { anims[1], anims[1] + 1 } ]_vars

C8_Witness ==
    /\ gameMode = "rolling"
    /\ ~isAnimating
    /\ anims = << >>
    /\ rollsLeft = 1
    /\ diceValues[0] # diceValues[1]
    /\ currentRound = 1

\* the scoreboard entries that are set
SetEntries ==
    { pc \in ((DOMAIN scoreboards) \X Categories) : scoreboards[pc[1]][pc[2]] # NULL }

\* the turn state right after the automatic initial roll of a turn
FreshTurn ==
    /\ gameMode = "rolling"
    /\ rollsLeft = 2
    /\ \A i \in 0 .. 4 : ~diceKept[i] /\ diceValues[i] \in 1 .. 6
    /\ diceValues \in RollOutcomes

(* C9: the current player index is always in 0 .. N-1; a commit by player p *)
(* in round r makes the turn (p+1, r) if p < N-1 and (0, r+1) otherwise;    *)
(* if the new round is above 13 the phase is gameOver, else the phase is    *)
(* rolling with rolls-left 2, no die kept and five freshly rolled dice, and *)
(* with no animation in progress when the commit came from scoreSelection.  *)
C9_RoundRobin ==
    /\ [](currentPlayer \in 0 .. (numPlayers - 1))
    /\ [][ CommitStep =>
             /\ currentPlayer < numPlayers - 1 =>
                    (currentPlayer' = currentPlayer + 1 /\ currentRound' = currentRound)
             /\ currentPlayer >= numPlayers - 1 =>
                    (currentPlayer' = 0 /\ currentRound' = currentRound + 1)
             /\ currentRound' > MAX_TURNS => gameMode' = "gameOver"
             /\ currentRound' <= MAX_TURNS =>
                    /\ FreshTurn'
                    /\ gameMode = "scoreSelection" => ~isAnimating' ]_vars

C9_Witness ==
    /\ numPlayers = 2
    /\ currentPlayer = 0
    /\ currentRound = 2
    /\ commits = 2
    /\ gameMode = "rolling"
    /\ rollsLeft = 2

(* C10: a step of setNumberOfPlayers(n), n in 1 .. 9, at the first start or  *)
(* later, leaves exactly n scoreboards with all 13 categories unset, round  *)
(* 1, player 0 and phase rolling after an initial roll with rolls-left 2;   *)
(* the entries set never outnumber the commits of the current game, so no   *)
(* score of an earlier game is on a scoreboard of the new one.              *)
C10_NewGame ==
    /\ [](/\ Cardinality(SetEntries) <= commits
          /\ gameMode # "promptPlayers" => DOMAIN scoreboards = 0 .. (numPlayers - 1))
    /\ [][ \A n \in 1 .. MaxPlayerButton :
             setNumberOfPlayers(n) =>
                /\ numPlayers' = n
                /\ DOMAIN scoreboards' = 0 .. (n - 1)
                /\ \A p \in DOMAIN scoreboards' :
                       /\ DOMAIN scoreboards'[p] = Categories
                       /\ \A c \in Categories : scoreboards'[p][c] = NULL
                /\ Cardinality(Categories) = 13
                /\ currentRound' = 1
                /\ currentPlayer' = 0
                /\ FreshTurn' ]_vars

\* a second game: begun while a reroll sequence of the game before is still live
C10_Witness ==
    /\ numPlayers = 2
    /\ gameMode = "rolling"
    /\ commits = 0
    /\ currentRound = 1
    /\ currentPlayer = 0
    /\ SetEntries = {}
    /\ rollsLeft = 2
    /\ isAnimating

----------------------------------------------------------------------------
(* C11 as claimed: a setNumberOfPlayers(n) call with n outside 1 .. 9 is    *)
(* rejected: it leaves the scoreboards, the round, the current player and  *)
(* the dice as they are and does not put the phase in rolling.             *)
C11_OutOfRangeCountRejected ==
    [][ \A n \in OutOfRangeCounts :
          setNumberOfPlayers(n) =>
             /\ UNCHANGED <<scoreboards, currentRound, currentPlayer, diceValues>>
             /\ gameMode # "rolling" => gameMode' # "rolling" ]_vars

\* a step that takes a finished game back to the player prompt
RestartStep == gameMode = "gameOver" /\ gameMode' = "promptPlayers"

(* C12 as claimed: right after a restart in gameOver, before a player count *)
(* is chosen, no entry of a scoreboard of the finished game is left.        *)
C12_RestartDiscards ==
    [][ RestartStep =>
          \A p \in DOMAIN scoreboards' : \A c \in Categories : scoreboards'[p][c] = NULL ]_vars

(* C12 as amended: a restart in gameOver puts the phase in promptPlayers,   *)
(* shows the player prompt and changes nothing else: the scoreboards of the *)
(* finished game stay as they are; the choice of a player count in          *)
(* promptPlayers is what replaces them all by empty ones.                   *)
C12_RestartKeepsBoards ==
    [][ /\ RestartStep =>
              /\ overlay' = PromptOverlay
              /\ UNCHANGED <<scoreboards, numPlayers, currentRound, currentPlayer,
                             diceValues, diceKept, rollsLeft, commits>>
        /\ (gameMode = "promptPlayers" /\ NewGameStep) =>
              /\ DOMAIN scoreboards' = 0 .. (numPlayers' - 1)
              /\ \A p \in DOMAIN scoreboards' : scoreboards'[p] = EmptyBoard ]_vars

\* after the restart of a finished two-player game: its 26 entries are still set
C12_Witness ==
    /\ gameMode = "promptPlayers"
    /\ overlay = PromptOverlay
    /\ numPlayers = 2
    /\ commits = 2 * MAX_TURNS
    /\ currentRound = MAX_TURNS + 1
    /\ \A p \in DOMAIN scoreboards : scoreboards[p]["ones"] # NULL

(* C13 as claimed: once the phase is gameOver, every step that is not a     *)
(* restart (a reroll, end-turn, die-toggle, category-selected or            *)
(* player-count-chosen request, a frame, a tick of the game loop) leaves    *)
(* the phase, the scoreboards, the round and the current player unchanged.  *)
C13_GameOverTerminal ==
    [][ (gameMode = "gameOver" /\ ~restartGame) =>
            UNCHANGED <<gameMode, scoreboards, currentRound, currentPlayer>> ]_vars

(* C14: in phase rolling with no animation in progress an end-turn request  *)
(* can be served whatever rolls-left is, and serving it puts the phase in   *)
(* scoreSelection in that step, sets turnEnded, opens the selection menu    *)
(* for the dice as they are and leaves dice, kept flags, rolls-left,        *)
(* scoreboards, current player and round unchanged; while turnEnded is set  *)
(* no reroll sequence is live and the dice change only in a step that       *)
(* begins a turn (turnEnded cleared, phase rolling, rolls-left 2, no die    *)
(* kept).                                                                   *)
C14_EndTurn ==
    /\ []((gameMode = "rolling" /\ ~isAnimating) =>
             ENABLED (KeyE /\ gameMode' = "scoreSelection"))
    /\ [](turnEnded => (~isAnimating /\ anims = << >>))
    /\ [][ /\ (gameMode = "rolling" /\ ~isAnimating /\ KeyE) =>
                  /\ gameMode' = "scoreSelection"
                  /\ turnEnded'
                  /\ overlay'.kind = "select"
                  /\ overlay'.dice = diceValues
                  /\ UNCHANGED <<diceValues, diceKept, rollsLeft, scoreboards,
                                 currentPlayer, currentRound>>
           /\ (turnEnded /\ diceValues' # diceValues) =>
                  /\ ~turnEnded'
                  /\ gameMode' = "rolling"
                  /\ rollsLeft' = MAX_ROLLS_PER_TURN
                  /\ \A i \in DiceIdx : ~diceKept'[i] ]_vars

\* the turn was ended without a reroll, with a die kept
C14_Witness ==
    /\ gameMode = "scoreSelection"
    /\ turnEnded
    /\ rollsLeft = MAX_ROLLS_PER_TURN
    /\ diceKept[0]
    /\ overlay.kind = "select"
    /\ ~isAnimating

----------------------------------------------------------------------------
(* The scores of a dice tuple, said without the calculator *)

\* number of dice of d that show face f
Count(d, f) == Cardinality({ i \in DiceIdx : d[i] = f })

Sum5(d) == d[0] + d[1] + d[2] + d[3] + d[4]

Distinct(d) == { d[i] : i \in DiceIdx }

\* the selection menu is open
MenuShown == gameMode = "scoreSelection" /\ overlay.kind = "select"

\* the score the open menu offers for category c (c not used)
Offered(c) == overlay.rows[c].score

(* C15: the menu that end-turn opens for any of the 6^5 dice tuples has a   *)
(* row for each of the 13 categories, and every score it offers is a       *)
(* natural number: chance is the sum of the 5 dice, the upper category of  *)
(* face k is k times the number of dice showing k, three_of_a_kind         *)
(* (four_of_a_kind) is the sum of the 5 dice if some face shows on at      *)
(* least 3 (4) dice and 0 otherwise.                                       *)
C15_SumScores ==
    MenuShown =>
        LET d == overlay.dice
        IN  /\ d = diceValues
            /\ DOMAIN overlay.rows = Categories
            /\ Cardinality(Categories) = 13
            /\ commits = 0 => \A c \in Categories : ~overlay.rows[c].used
            /\ \A c \in Categories : ~overlay.rows[c].used =>
                   /\ Offered(c) \in Nat
                   /\ c = "chance" => Offered(c) = Sum5(d)
                   /\ \A k \in Faces : c = upperKeys[k] => Offered(c) = k * Count(d, k)
                   /\ c = "three_of_a_kind" =>
                          Offered(c) = IF \E f \in Faces : Count(d, f) >= 3 THEN Sum5(d) ELSE 0
                   /\ c = "four_of_a_kind" =>
                          Offered(c) = IF \E f \in Faces : Count(d, f) >= 4 THEN Sum5(d) ELSE 0

\* four sixes and a two: both of-a-kind scores are the sum, sixes is 24
C15_Witness ==
    /\ MenuShown
    /\ diceValues = Tuple5(6, 6, 2, 6, 6)
    /\ Offered("four_of_a_kind") = 26
    /\ Offered("three_of_a_kind") = 26
    /\ Offered("sixes") = 24
    /\ Offered("twos") = 2
    /\ Offered("ones") = 0
    /\ Offered("chance") = 26

(* C16: for any dice tuple the menu offers 25 for full_house if the dice    *)
(* show exactly two distinct faces, one on 2 dice and one on 3, and 0       *)
(* otherwise; 50 for yahtzee if all 5 dice show one face and 0 otherwise;   *)
(* so five equal dice get 0 for full_house and 50 for yahtzee, and the two  *)
(* are never both non-zero.                                                 *)
C16_FullHouseYahtzee ==
    (MenuShown /\ commits = 0) =>
        LET d == overlay.dice
            twoAndThree == /\ Cardinality(Distinct(d)) = 2
                           /\ { Count(d, f) : f \in Distinct(d) } = {2, 3}
            allEqual    == \A i \in DiceIdx : d[i] = d[0]
        IN  /\ Offered("full_house") = (IF twoAndThree THEN 25 ELSE 0)
            /\ Offered("yahtzee") = (IF allEqual THEN 50 ELSE 0)
            /\ allEqual => (Offered("full_house") = 0 /\ Offered("yahtzee") = 50)
            /\ ~(Offered("full_house") # 0 /\ Offered("yahtzee") # 0)

\* three ones before two twos: a full house whose counts are not in ascending
\* order of the faces
C16_Witness ==
    /\ MenuShown
    /\ commits = 0
    /\ diceValues = Tuple5(1, 2, 1, 2, 1)
    /\ Offered("full_house") = 25
    /\ Offered("yahtzee") = 0

(* C17: for any dice tuple, in any order, the menu offers 30 for            *)
(* small_straight if the distinct faces contain {1,2,3,4}, {2,3,4,5} or     *)
(* {3,4,5,6} and 0 otherwise, and 40 for large_straight if the distinct     *)
(* faces are exactly {1,2,3,4,5} or {2,3,4,5,6} and 0 otherwise; so where   *)
(* large_straight is 40, small_straight is 30.                              *)
C17_Straights ==
    (MenuShown /\ commits = 0) =>
        LET u == Distinct(overlay.dice)
            small == \/ {1, 2, 3, 4} \subseteq u
                     \/ {2, 3, 4, 5} \subseteq u
                     \/ {3, 4, 5, 6} \subseteq u
            large == u = {1, 2, 3, 4, 5} \/ u = {2, 3, 4, 5, 6}
        IN  /\ Offered("small_straight") = (IF small THEN 30 ELSE 0)
            /\ Offered("large_straight") = (IF large THEN 40 ELSE 0)
            /\ Offered("large_straight") = 40 => Offered("small_straight") = 30

\* a small straight that is not a large one, the dice not in order
C17_Witness ==
    /\ MenuShown
    /\ commits = 0
    /\ diceValues = Tuple5(4, 6, 3, 4, 5)
    /\ Offered("small_straight") = 30
    /\ Offered("large_straight") = 0

----------------------------------------------------------------------------
(* The final score of a scoreboard, said without the calculator *)

RECURSIVE SumEntries(_, _)
SumEntries(sb, cats) ==
    IF cats = {} THEN 0
    ELSE LET c == CHOOSE x \in cats : TRUE
         IN  sb[c][1] + SumEntries(sb, cats \ {c})

UpperSet == { "ones", "twos", "threes", "fours", "fives", "sixes" }

SetUpperSum(sb) == SumEntries(sb, { c \in UpperSet : sb[c] # NULL })

SetLowerSum(sb) == SumEntries(sb, { c \in Categories \ UpperSet : sb[c] # NULL })

\* the final scores overlay is open
FinalShown == gameMode = "gameOver" /\ overlay.kind = "final"

(* C18: the row the final scores overlay shows for a scoreboard, whatever   *)
(* subset of its categories is set, is [upper, bonus, lower, total] with    *)
(* upper the sum of the set upper entries, lower the sum of the set lower   *)
(* entries, bonus 35 if upper >= 63 and 0 otherwise, total = upper + bonus  *)
(* + lower.                                                                 *)
C18_FinalScore ==
    FinalShown =>
        /\ DOMAIN overlay.rows = 0 .. (numPlayers - 1)
        /\ \A p \in DOMAIN overlay.rows :
               LET row == overlay.rows[p]
                   sb  == scoreboards[p]
               IN  /\ Len(row) = 4
                   /\ row[1] = SetUpperSum(sb)
                   /\ row[3] = SetLowerSum(sb)
                   /\ row[2] \in {0, 35}
                   /\ row[2] = 35 <=> SetUpperSum(sb) >= 63
                   /\ row[4] = SetUpperSum(sb) + row[2] + SetLowerSum(sb)

\* an upper subtotal of exactly 63, lower categories unset, chance taken last
C18_Witness ==
    /\ FinalShown
    /\ overlay.rows[0][1] = 63
    /\ overlay.rows[0][2] = 35
    /\ scoreboards[0]["yahtzee"] = NULL
    /\ scoreboards[0]["three_of_a_kind"] = NULL
    /\ scoreboards[0]["chance"] = Some(15)
    /\ overlay.rows[0][3] = 25 + 40 + 15
    /\ overlay.rows[0][4] = 63 + 35 + 80

----------------------------------------------------------------------------
\* a step in which a live reroll sequence is resumed after a frame
FrameStep == anims # << >> /\ anims' # anims /\ ~RerollStartStep

\* a step that begins a turn: a commit that does not end the game, or a new game
TurnBeginStep ==
    /\ (CommitStep \/ NewGameStep)
    /\ gameMode' = "rolling"
    /\ rollsLeft' = MAX_ROLLS_PER_TURN
    /\ ~turnEnded'

(* C19: the step that starts a reroll sequence decrements rolls-left and    *)
(* leaves the dice as they are; of the 66 resumptions of the sequence only  *)
(* the 51st, the one after the last of the 36 shake frames and before the   *)
(* first move-out frame, assigns the dice (every die a face, the kept ones  *)
(* their own); the 50 before it (move-in, shake) and the 15 after it        *)
(* (move-out) leave the dice unchanged, and none changes rolls-left.        *)
C19_RollInstant ==
    [][ /\ RerollStartStep =>
              /\ rollsLeft' = rollsLeft - 1
              /\ diceValues' = diceValues
              /\ anims' = << 0 >>
        /\ FrameStep =>
              /\ rollsLeft' = rollsLeft
              /\ anims[1] + 1 \in 1 .. (15 + 36 + 15)
              /\ anims[1] + 1 # 15 + 36 => diceValues' = diceValues
              /\ anims[1] + 1 = 15 + 36 =>
                     \E r \in RollOutcomes :
                        \A i \in DiceIdx :
                           diceValues'[i] = IF diceKept[i] THEN diceValues[i] ELSE r[i] ]_vars

\* right after the 51st resumption of the second reroll of a turn
C19_Witness ==
    /\ gameMode = "rolling"
    /\ isAnimating
    /\ anims = << 15 + 36 >>
    /\ rollsLeft = 0
    /\ diceValues = Tuple5(2, 2, 3, 4, 5)
    /\ ~diceKept[0]

(* C20: the start of a reroll sequence and each of its frames leave the     *)
(* five kept flags as they are, and the frame that rolls leaves the value   *)
(* of every kept die as it is; while a sequence is live the kept flags      *)
(* change only in a step that begins a turn; the dice values change only in *)
(* the rolling frame of a reroll sequence, and then only those of dice that *)
(* are not kept, or in a step that begins a turn (its initial roll).        *)
C20_RerollKeepsKept ==
    [][ /\ anims' # anims => diceKept' = diceKept
        /\ FrameStep =>
              \A i \in DiceIdx : diceKept[i] => diceValues'[i] = diceValues[i]
        /\ (isAnimating /\ diceKept' # diceKept) =>
              (TurnBeginStep /\ \A i \in DiceIdx : ~diceKept'[i])
        /\ diceValues' # diceValues =>
              \/ /\ FrameStep
                 /\ anims[1] + 1 = 15 + 36
                 /\ \A i \in DiceIdx : diceValues'[i] # diceValues[i] => ~diceKept[i]
              \/ TurnBeginStep ]_vars

\* a reroll sequence past its roll with die 0 kept since before the request
C20_Witness ==
    /\ gameMode = "rolling"
    /\ isAnimating
    /\ anims = << 15 + 36 + 1 >>
    /\ diceKept[0]
    /\ diceValues[0] = 1
    /\ rollsLeft = 1

----------------------------------------------------------------------------
(* C21: a selectScoreCategory(c, z) request served in phase scoreSelection  *)
(* sets the entry of category c of the current player to 0 if z (zero       *)
(* forced) and to the score of the current dice in c otherwise, which for   *)
(* a category the menu offers is the score the menu shows since end-turn;   *)
(* every other entry of that player and every entry of every other player  *)
(* is left as it is and no scoreboard is added or removed.                  *)
C21_CommitOneEntry ==
    [][ \A c \in Categories, z \in BOOLEAN :
          (/\ gameMode = "scoreSelection"
           /\ CommitStep
           /\ selectScoreCategory(c, z)) =>
             /\ DOMAIN scoreboards' = DOMAIN scoreboards
             /\ z => scoreboards'[currentPlayer][c] = Some(0)
             /\ ~z => scoreboards'[currentPlayer][c] =
                          Some(calculatePossibleScores(diceValues)[c])
             /\ (~z /\ MenuShown /\ ~overlay.rows[c].used) =>
                    /\ overlay.dice = diceValues
                    /\ overlay.player = currentPlayer
                    /\ scoreboards'[currentPlayer][c] = Some(Offered(c))
             /\ \A p \in DOMAIN scoreboards, c2 \in Categories :
                    (p # currentPlayer \/ c2 # c) =>
                        scoreboards'[p][c2] = scoreboards[p][c2] ]_vars

\* the second player has taken a full house: 25 next to the yahtzee, the first
\* player's two entries as they were
C21_Witness ==
    /\ commits = 4
    /\ currentPlayer = 0
    /\ currentRound = 3
    /\ scoreboards[1]["full_house"] = Some(25)
    /\ scoreboards[1]["yahtzee"] = Some(50)
    /\ scoreboards[0]["ones"] = Some(3)
    /\ scoreboards[0]["chance"] = Some(0)
    /\ Cardinality(SetEntries) = 4

----------------------------------------------------------------------------
\* number of categories set on the scoreboard of player p
NumSet(p) == Cardinality({ c \in Categories : scoreboards[p][c] # NULL })

(* C22: in games whose category selections are clicks on buttons of the     *)
(* selection menu (rows of unset categories only), in every rolling or      *)
(* scoreSelection state of round r with current player c every player       *)
(* before c has exactly r categories set and every player from c on has     *)
(* r - 1; so the current player has an unset category, an open menu has a   *)
(* row with buttons, and in gameOver every player has all 13 set.           *)
C22_SetCounts ==
    /\ InPlay =>
          /\ DOMAIN scoreboards = 0 .. (numPlayers - 1)
          /\ \A p \in DOMAIN scoreboards :
                 NumSet(p) = IF p < currentPlayer THEN currentRound ELSE currentRound - 1
          /\ \E c \in Categories : scoreboards[currentPlayer][c] = NULL
          /\ MenuShown => OfferedCats # {}
    /\ gameMode = "gameOver" =>
          \A p \in DOMAIN scoreboards :
             \A c \in Categories : scoreboards[p][c] # NULL

\* round 7 of a two-player game, the second player's menu open; the first
\* player has taken scores from the top and zeroed rows from the bottom
C22_Witness ==
    /\ MenuShown
    /\ numPlayers = 2
    /\ currentRound = 7
    /\ currentPlayer = 1
    /\ NumSet(0) = 7
    /\ NumSet(1) = 6
    /\ scoreboards[0]["twos"] = Some(4)
    /\ scoreboards[0]["chance"] = Some(0)
    /\ scoreboards[1]["yahtzee"] = Some(0)

====
